---- MODULE Spec2Model ----
(***************************************************************************)
(* Denflow AI backend (src/main.py, src/schemas.py): the demo auth         *)
(* handlers and the lead-job handlers over a document store.               *)
(*                                                                         *)
(* The store is three collections (user, leadjob, lead).  Every handler    *)
(* is a sequence of store operations; the HTTP runtime may run handlers    *)
(* concurrently, so each store operation is one atomic step of the         *)
(* request that performs it, and the requests in flight are a bag of       *)
(* frames (the handler's position and locals).  A store write may fail     *)
(* (the driver raises): the exception leaves the handler and the           *)
(* framework answers 500.                                                  *)
(*                                                                         *)
(* Identifiers are ObjectIds.  Their string form is a fixed-length         *)
(* lower-case hexadecimal string; parsing accepts either case.  Strings    *)
(* that carry identifiers are sequences of one-character strings.  The     *)
(* _id of a lead document (only rendered by get_lead_results) is not       *)
(* modelled: a lead is identified by its job_id and contact index.         *)
(***************************************************************************)
EXTENDS Integers, Sequences, FiniteSets, Bags, TLC

VARIABLES
    db,            \* the store handle: FALSE when it is None
    users,         \* collection "user": identifier -> document
    jobs,          \* collection "leadjob": identifier -> document
    leads,         \* collection "lead": the documents
    nextId,        \* the next identifier the store assigns
    inflight,      \* the handlers between two store operations: a bag of their frames
    resp,          \* the response the last step sent, NoResp when it sent none
    returnedJobs   \* the job_ids that request_leads has returned to a client

vars == <<db, users, jobs, leads, nextId, inflight, resp, returnedJobs>>

store == <<users, jobs, leads>>

-----------------------------------------------------------------------------
(* Bounds of the model *)

MaxIds == 2
OidLen == 2
FirstOid == 10

(* Program constants *)

RangeStart == 1
RangeStop == 11
ResultLimit == 200
MinLocation == 2
MinJobTitle == 2
MinCompanySize == 1
MinKeywords == 1

Emails == {"a@x.io", "b@x.io"}

None == "<None>"

Names == {None, "Ann"}

-----------------------------------------------------------------------------
(* bson.ObjectId: parsing and printing *)

HexLower == <<"0", "1", "2", "3", "4", "5", "6", "7", "8", "9", "a", "b", "c", "d", "e", "f">>

HexUpper == <<"0", "1", "2", "3", "4", "5", "6", "7", "8", "9", "A", "B", "C", "D", "E", "F">>

IsHex(c) == \E d \in 1..16 : HexLower[d] = c \/ HexUpper[d] = c

HexVal(c) == (CHOOSE d \in 1..16 : HexLower[d] = c \/ HexUpper[d] = c) - 1

\* ObjectId.is_valid on a str: exactly OidLen hexadecimal characters.
IsValidOid(s) == Len(s) = OidLen /\ \A k \in 1..Len(s) : IsHex(s[k])

RECURSIVE HexNum(_)
HexNum(s) == IF s = <<>> THEN 0 ELSE 16 * HexNum(SubSeq(s, 1, Len(s) - 1)) + HexVal(s[Len(s)])

\* ObjectId(s) for a valid s: the identifier it denotes.
ObjectId(s) == HexNum(s)

\* str(oid): lower-case hexadecimal, zero padded.
OidStr(n) == [k \in 1..OidLen |-> HexLower[((n \div (16 ^ (OidLen - k))) % 16) + 1]]

Upper(s) == [k \in 1..Len(s) |-> IF IsHex(s[k]) THEN HexUpper[HexVal(s[k]) + 1] ELSE s[k]]

OidSpace == 16 ^ OidLen

-----------------------------------------------------------------------------
(* Request payloads and documents *)

ValidPayload == [location |-> "NYC", job_title |-> "Engineer", company_size_range |-> "11-50", industry_keywords |-> <<"SaaS", "AI">>]

Payloads == {ValidPayload, [ValidPayload EXCEPT !.location = "N"], [ValidPayload EXCEPT !.industry_keywords = <<>>]}

\* LeadRequest field constraints
LeadRequest(payload) ==
    /\ Len(payload.location) >= MinLocation
    /\ Len(payload.job_title) >= MinJobTitle
    /\ Len(payload.company_size_range) >= MinCompanySize
    /\ Len(payload.industry_keywords) >= MinKeywords

\* User(...): defaults of the schema
User(email, name, password_hash, auth_provider) ==
    [name |-> name, email |-> email, password_hash |-> password_hash, auth_provider |-> auth_provider, is_active |-> TRUE]

LoginUser(email) == User(email, None, "demo", "password")

GoogleUser(email, name) == User(email, IF name = None THEN "" ELSE name, None, "google")

\* A job that starts out fulfilled (a faulty LeadJob)
LeadJobReady(payload) ==
    [user_id |-> None, location |-> payload.location, job_title |-> payload.job_title, company_size_range |-> payload.company_size_range, industry_keywords |-> payload.industry_keywords, status |-> "ready", result_count |-> 0]

\* job = LeadJob(..., status="processing", result_count=0)
LeadJob(payload) ==
    [user_id |-> None, location |-> payload.location, job_title |-> payload.job_title, company_size_range |-> payload.company_size_range, industry_keywords |-> payload.industry_keywords, status |-> "processing", result_count |-> 0]

\* lead = Lead(job_id=job_id, name=f"Contact {i}", ...): i stands for the
\* contact index embedded in name, email, phone, linkedin and company.
Lead(job_id, i, payload) ==
    [job_id |-> job_id, i |-> i, title |-> payload.job_title, location |-> payload.location, company_size |-> payload.company_size_range, industry |-> payload.industry_keywords[1]]

-----------------------------------------------------------------------------
(* Persistence helpers (database.py) *)

\* create_document(collection, record): the collection with the record
\* inserted under a newly assigned identifier.
create_document(coll, id, doc) == [k \in DOMAIN coll \cup {id} |-> IF k = id THEN doc ELSE coll[k]]

\* get_documents(collection, filter, limit): the possible results, up to
\* limit matching records in store-native order.
get_documents(docs, filter, limit) ==
    LET m == {d \in docs : \A k \in DOMAIN filter : d[k] = filter[k]}
    IN  IF Cardinality(m) <= limit THEN {m} ELSE {S \in SUBSET m : Cardinality(S) = limit}

-----------------------------------------------------------------------------
(* Filters and clauses of the handlers *)

\* A filter on a misspelt field (a faulty EmailFilter)
EmailFilterName(doc, email) == doc.name = email

\* {"email": payload.email}
EmailFilter(doc, email) == doc.email = email

\* A handler that creates on every call (a faulty NotUser)
NotUserAlways(found) == TRUE

\* if not user:
NotUser(found) == found = {}

\* find_one({"email": email}): no document, or any one matching document
FindByEmail(email) ==
    LET m == {u \in DOMAIN users : EmailFilter(users[u], email)}
    IN  IF m = {} THEN {{}} ELSE {{u} : u \in m}

\* A filter that matches every job (a faulty JobIdFilter)
JobIdFilterAny(id, job_id) == TRUE

\* {"_id": ObjectId(job_id)}
JobIdFilter(id, job_id) == id = ObjectId(job_id)

\* The empty filter, which matches every lead (a faulty LeadFilter)
LeadFilterAny(job_id) == <<>>

\* {"job_id": job_id}
LeadFilter(job_id) == [job_id |-> job_id]

\* A loop that stops one short (a faulty LoopDone)
LoopDoneEarly(i) == i >= RangeStop - 1

\* for i in range(1, 11): exhausted
LoopDone(i) == i >= RangeStop

\* A count taken from the loop position (a faulty ReadySet)
ReadySetOffByOne(job, n) == [job EXCEPT !.status = "ready", !.result_count = n + 1]

\* An update that leaves the status alone (a faulty ReadySet)
ReadySetCountOnly(job, n) == [job EXCEPT !.result_count = n]

\* {"$set": {"status": "ready", "result_count": len(mock_leads)}}
ReadySet(job, n) == [job EXCEPT !.status = "ready", !.result_count = n]

\* A handler that lets InvalidId escape (a faulty ExceptException)
ExceptHTTPOnly(exc) == IF exc = "InvalidId" THEN 500 ELSE 400

\* except Exception: raise HTTPException(status_code=400, ...)
\* Every exception raised in the try block is caught, the HTTPException
\* raised for a missing record included.
ExceptException(exc) == 400

-----------------------------------------------------------------------------
(* Responses and frames *)

NoResp == [op |-> "none", code |-> 0, id |-> <<>>, email |-> "", name |-> "", token |-> <<>>, status |-> "", result_count |-> 0, leads |-> {}]

Frame == [pc |-> "", email |-> "", name |-> "", found |-> {}, user_id |-> <<>>, job_id |-> <<>>, payload |-> ValidPayload, i |-> 0, mock_leads |-> 0]

Init ==
    /\ db \in BOOLEAN
    /\ users = <<>>
    /\ jobs = <<>>
    /\ leads = {}
    /\ nextId = FirstOid
    /\ inflight = EmptyBag
    /\ resp = NoResp
    /\ returnedJobs = {}

-----------------------------------------------------------------------------
(* Inputs *)

BadChars == [k \in 1..OidLen |-> "z"]

TooLong == OidStr(FirstOid) \o <<"0">>

Malformed == {BadChars, TooLong}

\* Tokens a client may send: the printed form of every stored user
\* identifier and of one that is not stored, and the malformed strings.
TokenInputs == {OidStr(n) : n \in DOMAIN users \cup {nextId}} \cup Malformed

\* Job identifiers a client may send: the printed form of every stored job
\* identifier, in lower and in upper case, one that is not stored, and the
\* malformed strings.
JobIdInputs ==
    {OidStr(n) : n \in DOMAIN jobs \cup {nextId}} \cup {Upper(OidStr(n)) : n \in DOMAIN jobs} \cup Malformed

Frames == BagToSet(inflight)

Creating == {f \in Frames : f.pc \in {"login_create", "google_create"}}

\* Identifiers the requests in flight will still ask the store for
Pending == IF Creating = {} THEN 0 ELSE BagCardinality([f \in Creating |-> inflight[f]])

CanCreate == nextId + Pending < FirstOid + MaxIds /\ nextId + Pending < OidSpace

Respond(r) == resp' = r

Enter(f) == inflight' = inflight (+) SetToBag({f})

Move(f, g) == inflight' = (inflight (-) SetToBag({f})) (+) SetToBag({g})

Leave(f) == inflight' = inflight (-) SetToBag({f})

\* An exception that leaves the handler: the framework answers 500
Raise500(f, op) ==
    /\ Respond([NoResp EXCEPT !.op = op, !.code = 500])
    /\ Leave(f)

\* token = str(user["_id"]); {"token": token, "user": {"email": ..., "name": ...}}
AuthResponse(op, id) ==
    [NoResp EXCEPT !.op = op, !.code = 200, !.token = OidStr(id), !.email = users[id].email, !.name = users[id].name]

-----------------------------------------------------------------------------
(* POST /auth/login *)

login ==
    /\ \E email \in Emails :
        IF ~db
        THEN /\ Respond([NoResp EXCEPT !.op = "login", !.code = 500])
             /\ UNCHANGED <<db, users, jobs, leads, nextId, inflight, returnedJobs>>
        ELSE \E found \in FindByEmail(email) :
            IF NotUser(found)
            THEN /\ CanCreate
                 /\ Enter([Frame EXCEPT !.pc = "login_create", !.email = email, !.found = found])
                 /\ Respond(NoResp)
                 /\ UNCHANGED <<db, users, jobs, leads, nextId, returnedJobs>>
            ELSE \E u \in found :
                 /\ Respond(AuthResponse("login", u))
                 /\ UNCHANGED <<db, users, jobs, leads, nextId, inflight, returnedJobs>>

\* user_id = create_document("user", User(email=..., password_hash="demo", auth_provider="password"))
login_create ==
    \E f \in Frames, ok \in BOOLEAN :
        /\ f.pc = "login_create"
        /\ IF ok
           THEN /\ users' = create_document(users, nextId, LoginUser(f.email))
                /\ nextId' = nextId + 1
                /\ Move(f, [f EXCEPT !.pc = "login_reread", !.user_id = OidStr(nextId)])
                /\ Respond(NoResp)
                /\ UNCHANGED <<db, jobs, leads, returnedJobs>>
           ELSE /\ Raise500(f, "login")
                /\ UNCHANGED <<db, users, jobs, leads, nextId, returnedJobs>>

\* user = db["user"].find_one({"_id": ObjectId(user_id)}); token = str(user["_id"])
login_return ==
    \E f \in Frames :
        /\ f.pc = "login_reread"
        /\ ObjectId(f.user_id) \in DOMAIN users
        /\ Respond(AuthResponse("login", ObjectId(f.user_id)))
        /\ Leave(f)
        /\ UNCHANGED <<db, users, jobs, leads, nextId, returnedJobs>>

-----------------------------------------------------------------------------
(* POST /auth/google *)

google_auth ==
    /\ \E email \in Emails, name \in Names :
        IF ~db
        THEN /\ Respond([NoResp EXCEPT !.op = "google_auth", !.code = 500])
             /\ UNCHANGED <<db, users, jobs, leads, nextId, inflight, returnedJobs>>
        ELSE \E found \in FindByEmail(email) :
            IF NotUser(found)
            THEN /\ CanCreate
                 /\ Enter([Frame EXCEPT !.pc = "google_create", !.email = email, !.name = name, !.found = found])
                 /\ Respond(NoResp)
                 /\ UNCHANGED <<db, users, jobs, leads, nextId, returnedJobs>>
            ELSE \E u \in found :
                 /\ Respond(AuthResponse("google_auth", u))
                 /\ UNCHANGED <<db, users, jobs, leads, nextId, inflight, returnedJobs>>

\* user_id = create_document("user", User(email=..., name=payload.name or "", auth_provider="google"))
google_auth_create ==
    \E f \in Frames, ok \in BOOLEAN :
        /\ f.pc = "google_create"
        /\ IF ok
           THEN /\ users' = create_document(users, nextId, GoogleUser(f.email, f.name))
                /\ nextId' = nextId + 1
                /\ Move(f, [f EXCEPT !.pc = "google_reread", !.user_id = OidStr(nextId)])
                /\ Respond(NoResp)
                /\ UNCHANGED <<db, jobs, leads, returnedJobs>>
           ELSE /\ Raise500(f, "google_auth")
                /\ UNCHANGED <<db, users, jobs, leads, nextId, returnedJobs>>

google_auth_return ==
    \E f \in Frames :
        /\ f.pc = "google_reread"
        /\ ObjectId(f.user_id) \in DOMAIN users
        /\ Respond(AuthResponse("google_auth", ObjectId(f.user_id)))
        /\ Leave(f)
        /\ UNCHANGED <<db, users, jobs, leads, nextId, returnedJobs>>

-----------------------------------------------------------------------------
(* The read handlers.  Each is one store read and answers at once, so its  *)
(* response is a function of the store and the argument.  A read changes   *)
(* nothing; the responses recorded in resp are those of reads served while *)
(* no other handler is in flight.                                          *)

\* The status a lookup by identifier answers with: ObjectId(s) raises
\* InvalidId on a malformed string, the handler raises HTTPException(404)
\* when find_one returns nothing, and both are raised inside the try block.
LookupStatus(coll, s) ==
    IF ~IsValidOid(s) THEN ExceptException("InvalidId")
    ELSE IF ObjectId(s) \notin DOMAIN coll THEN ExceptException("HTTPException404")
    ELSE 200

\* GET /auth/me
me(token) ==
    LET code == IF ~db THEN 500 ELSE LookupStatus(users, token)
    IN  IF code = 200
        THEN [NoResp EXCEPT !.op = "me", !.code = 200, !.id = token, !.email = users[ObjectId(token)].email, !.name = users[ObjectId(token)].name]
        ELSE [NoResp EXCEPT !.op = "me", !.code = code, !.id = token]

\* GET /api/leads/status/{job_id}
get_lead_status(job_id) ==
    LET code == IF ~db THEN 500 ELSE LookupStatus(jobs, job_id)
    IN  IF code = 200
        THEN [NoResp EXCEPT !.op = "get_lead_status", !.code = 200, !.id = job_id, !.status = jobs[ObjectId(job_id)].status, !.result_count = jobs[ObjectId(job_id)].result_count]
        ELSE [NoResp EXCEPT !.op = "get_lead_status", !.code = code, !.id = job_id]

\* GET /api/leads/results/{job_id}: the possible responses
get_lead_results(job_id) ==
    IF ~db
    THEN {[NoResp EXCEPT !.op = "get_lead_results", !.code = 500, !.id = job_id]}
    ELSE IF ~IsValidOid(job_id)
    THEN {[NoResp EXCEPT !.op = "get_lead_results", !.code = ExceptException("InvalidId"), !.id = job_id]}
    ELSE {[NoResp EXCEPT !.op = "get_lead_results", !.code = 200, !.id = job_id, !.leads = r] :
             r \in get_documents(leads, LeadFilter(job_id), ResultLimit)}

Quiet == inflight = EmptyBag

call_me ==
    /\ Quiet
    /\ \E token \in TokenInputs : Respond(me(token))
    /\ UNCHANGED <<db, users, jobs, leads, nextId, inflight, returnedJobs>>

call_get_lead_status ==
    /\ Quiet
    /\ \E job_id \in JobIdInputs : Respond(get_lead_status(job_id))
    /\ UNCHANGED <<db, users, jobs, leads, nextId, inflight, returnedJobs>>

call_get_lead_results ==
    /\ Quiet
    /\ \E job_id \in JobIdInputs : \E r \in get_lead_results(job_id) : Respond(r)
    /\ UNCHANGED <<db, users, jobs, leads, nextId, inflight, returnedJobs>>

-----------------------------------------------------------------------------
(* POST /api/leads/request *)

\* Validation of the body, the store check and job_id = create_document("leadjob", job)
request_leads ==
    /\ \E payload \in Payloads, ok \in BOOLEAN :
        IF ~LeadRequest(payload)
        THEN /\ Respond([NoResp EXCEPT !.op = "request_leads", !.code = 422])
             /\ UNCHANGED <<db, users, jobs, leads, nextId, inflight, returnedJobs>>
        ELSE IF ~db \/ ~ok
        THEN /\ Respond([NoResp EXCEPT !.op = "request_leads", !.code = 500])
             /\ UNCHANGED <<db, users, jobs, leads, nextId, inflight, returnedJobs>>
        ELSE /\ CanCreate
             /\ jobs' = create_document(jobs, nextId, LeadJob(payload))
             /\ nextId' = nextId + 1
             /\ Enter([Frame EXCEPT !.pc = "req_loop", !.job_id = OidStr(nextId), !.payload = payload, !.i = RangeStart])
             /\ Respond(NoResp)
             /\ UNCHANGED <<db, users, leads, returnedJobs>>

\* One iteration of the loop: create_document("lead", lead); mock_leads.append(lead)
request_leads_lead ==
    \E f \in Frames, ok \in BOOLEAN :
        /\ f.pc = "req_loop"
        /\ ~LoopDone(f.i)
        /\ IF ok
           THEN /\ leads' = leads \cup {Lead(f.job_id, f.i, f.payload)}
                /\ Move(f, [f EXCEPT !.i = @ + 1, !.mock_leads = @ + 1])
                /\ Respond(NoResp)
                /\ UNCHANGED <<db, users, jobs, nextId, returnedJobs>>
           ELSE /\ Raise500(f, "request_leads")
                /\ UNCHANGED <<db, users, jobs, leads, nextId, returnedJobs>>

\* db["leadjob"].update_one(filter, {"$set": ...}) and the return
request_leads_update ==
    \E f \in Frames, ok \in BOOLEAN :
        /\ f.pc = "req_loop"
        /\ LoopDone(f.i)
        /\ IF ok
           THEN /\ LET m == {j \in DOMAIN jobs : JobIdFilter(j, f.job_id)}
                   IN  IF m = {} THEN jobs' = jobs
                       ELSE \E j \in m : jobs' = [jobs EXCEPT ![j] = ReadySet(@, f.mock_leads)]
                /\ Respond([NoResp EXCEPT !.op = "request_leads", !.code = 200, !.id = f.job_id, !.status = "processing"])
                /\ returnedJobs' = returnedJobs \cup {f.job_id}
                /\ Leave(f)
                /\ UNCHANGED <<db, users, leads, nextId>>
           ELSE /\ Raise500(f, "request_leads")
                /\ UNCHANGED <<db, users, jobs, leads, nextId, returnedJobs>>

-----------------------------------------------------------------------------
(* Specifications *)

\* Every handler, any interleaving of their store operations
Next ==
    \/ login
    \/ login_create
    \/ login_return
    \/ google_auth
    \/ google_auth_create
    \/ google_auth_return
    \/ call_me
    \/ request_leads
    \/ request_leads_lead
    \/ request_leads_update
    \/ call_get_lead_status
    \/ call_get_lead_results

Spec == Init /\ [][Next]_vars

\* Every handler, served one at a time: a request starts only when none is
\* in flight.
NextSeq ==
    \/ Quiet /\ login
    \/ login_create
    \/ login_return
    \/ Quiet /\ google_auth
    \/ google_auth_create
    \/ google_auth_return
    \/ call_me
    \/ Quiet /\ request_leads
    \/ request_leads_lead
    \/ request_leads_update
    \/ call_get_lead_status
    \/ call_get_lead_results

SpecSeq == Init /\ [][NextSeq]_vars

\* The auth handlers touch only the user collection and the lead handlers
\* only the leadjob and lead collections.  The auth handlers on their own:
NextAuth ==
    \/ login
    \/ login_create
    \/ login_return
    \/ google_auth
    \/ google_auth_create
    \/ google_auth_return
    \/ call_me

SpecAuth == Init /\ [][NextAuth]_vars

\* The auth handlers served one at a time
NextAuthSeq ==
    \/ Quiet /\ login
    \/ login_create
    \/ login_return
    \/ Quiet /\ google_auth
    \/ google_auth_create
    \/ google_auth_return
    \/ call_me

SpecAuthSeq == Init /\ [][NextAuthSeq]_vars

\* The lead handlers on their own, any interleaving
NextLeads ==
    \/ request_leads
    \/ request_leads_lead
    \/ request_leads_update
    \/ call_get_lead_status
    \/ call_get_lead_results

SpecLeads == Init /\ [][NextLeads]_vars

-----------------------------------------------------------------------------
(* Properties *)

LeadsOf(coll, job_id) == {l \in coll : l.job_id = job_id}

UsersWith(coll, email) == {u \in DOMAIN coll : coll[u].email = email}

InLoop(job_id) == \E f \in Frames : f.pc = "req_loop" /\ f.job_id = job_id

AuthOK(r) == r.op \in {"login", "google_auth"} /\ r.code = 200

ReadOps == {"me", "get_lead_status", "get_lead_results"}

\* C1: when request_leads returns, exactly 10 leads carry the returned
\* job_id (contacts 1 to 10, all written by that call) and the stored job
\* with that id has result_count 10.
C1_TenLeadsOnReturn ==
    (resp.op = "request_leads" /\ resp.code = 200) =>
        /\ Cardinality(LeadsOf(leads, resp.id)) = 10
        /\ {l.i : l \in LeadsOf(leads, resp.id)} = 1..10
        /\ IsValidOid(resp.id)
        /\ ObjectId(resp.id) \in DOMAIN jobs
        /\ jobs[ObjectId(resp.id)].result_count = 10

C1_Witness ==
    /\ resp.op = "request_leads"
    /\ resp.code = 200
    /\ Cardinality(DOMAIN jobs) = 2
    /\ Cardinality(leads) > 10

\* C2: with the store available, me and get_lead_status answer 404 to a
\* well-formed identifier that matches no stored record.
C2_UnknownIs404 ==
    /\ (db /\ resp.op = "me" /\ IsValidOid(resp.id) /\ ObjectId(resp.id) \notin DOMAIN users) => resp.code = 404
    /\ (db /\ resp.op = "get_lead_status" /\ IsValidOid(resp.id) /\ ObjectId(resp.id) \notin DOMAIN jobs) => resp.code = 404

\* C3: with the store available, in every reachable state a malformed
\* identifier is answered 400 by me, get_lead_status and get_lead_results,
\* and the step that serves it changes no collection.
C3_MalformedIs400 ==
    /\ [](db => \A s \in Malformed :
            /\ ~IsValidOid(s)
            /\ me(s).code = 400
            /\ get_lead_status(s).code = 400
            /\ \A r \in get_lead_results(s) : r.code = 400)
    /\ [][(resp'.op \in ReadOps /\ resp'.id \in Malformed) =>
            (UNCHANGED store /\ (db => resp'.code = 400))]_vars

C3_Witness ==
    /\ resp.op = "get_lead_results"
    /\ resp.id = TooLong
    /\ resp.code = 400
    /\ leads # {}
    /\ DOMAIN users # {}

\* C4: in every state, get_lead_status of a job_id that request_leads has
\* returned answers status ready with result_count 10.
C4_ReturnedJobIsReady ==
    \A j \in returnedJobs :
        /\ get_lead_status(j).code = 200
        /\ get_lead_status(j).status = "ready"
        /\ get_lead_status(j).result_count = 10

C4_Witness ==
    /\ resp.op = "get_lead_status"
    /\ resp.id \in returnedJobs
    /\ resp.status = "ready"
    /\ \E j \in DOMAIN jobs : jobs[j].status = "processing"

\* C5: in every state, jobs still being fulfilled included, every record
\* get_lead_results returns for a well-formed job_id has that job_id, and
\* at most 200 records are returned.
C5_ResultsMatchJob ==
    \A job_id \in JobIdInputs : \A r \in get_lead_results(job_id) :
        r.code = 200 =>
            /\ \A l \in r.leads : l.job_id = job_id
            /\ Cardinality(r.leads) <= 200

C5_Witness ==
    /\ \E f \in Frames : f.pc = "req_loop" /\ f.i > 3
    /\ \E j \in returnedJobs : \E r \in get_lead_results(j) :
            Cardinality(r.leads) = 10 /\ r.leads # leads

\* C6: with handlers served one at a time, login and google_auth are
\* idempotent on email: no email has two user records, a token returned
\* names the record holding that email, two calls in a row for one email
\* return one token, and no call changes an existing record.
C6_IdempotentOnEmail ==
    /\ [](\A e \in Emails : Cardinality(UsersWith(users, e)) <= 1)
    /\ [](AuthOK(resp) => UsersWith(users, resp.email) = {ObjectId(resp.token)})
    /\ [][(AuthOK(resp) /\ AuthOK(resp') /\ resp'.email = resp.email) =>
            (resp'.token = resp.token /\ users' = users)]_vars
    /\ [][\A u \in DOMAIN users : u \in DOMAIN users' /\ users'[u] = users[u]]_vars

C6_Witness ==
    /\ resp.op = "google_auth"
    /\ resp.code = 200
    /\ users[ObjectId(resp.token)].auth_provider = "password"
    /\ Cardinality(DOMAIN users) = 2

\* C7: in every state, every lead's job_id names a stored job, and every
\* job whose status is ready has result_count equal to the number of leads
\* that reference it.
C7_LeadsAndCounts ==
    /\ \A l \in leads : IsValidOid(l.job_id) /\ ObjectId(l.job_id) \in DOMAIN jobs
    /\ \A j \in DOMAIN jobs :
        jobs[j].status = "ready" => jobs[j].result_count = Cardinality(LeadsOf(leads, OidStr(j)))

C7_Witness ==
    /\ \E j \in DOMAIN jobs : jobs[j].status = "ready"
    /\ \E j \in DOMAIN jobs :
        /\ jobs[j].status = "processing"
        /\ ~InLoop(OidStr(j))
        /\ Cardinality(LeadsOf(leads, OidStr(j))) \in 1..9

\* C8: nothing makes email unique.  A second record with an email is
\* inserted by a login or google_auth whose lookup, made before the first
\* record was inserted, saw no user; the two records have different tokens.
C8_DuplicateByStaleLookup ==
    /\ [](\A u, v \in DOMAIN users : u # v => OidStr(u) # OidStr(v))
    /\ [][\A e \in Emails :
            (Cardinality(UsersWith(users, e)) >= 1 /\ Cardinality(UsersWith(users', e)) > Cardinality(UsersWith(users, e))) =>
                \E f \in Frames :
                    /\ f.pc \in {"login_create", "google_create"}
                    /\ f.email = e
                    /\ f.found = {}
                    /\ CopiesIn(f, inflight') < CopiesIn(f, inflight)]_vars

C8_Witness ==
    \E u, v \in DOMAIN users :
        /\ u # v
        /\ users[u].email = users[v].email
        /\ OidStr(u) # OidStr(v)
        /\ Quiet

\* The creating call of the job has left and fewer than 10 leads were written
Abandoned(j) ==
    /\ jobs[j].status = "processing"
    /\ ~InLoop(OidStr(j))
    /\ Cardinality(LeadsOf(leads, OidStr(j))) < 10

\* C9: a job whose request_leads ended on a failed lead write after k < 10
\* leads has result_count 0, and no step changes the job or its k leads.
C9_AbandonedJobStays ==
    /\ [](\A j \in DOMAIN jobs : Abandoned(j) => jobs[j].result_count = 0)
    /\ [][\A j \in DOMAIN jobs : Abandoned(j) =>
            /\ j \in DOMAIN jobs'
            /\ jobs'[j] = jobs[j]
            /\ LeadsOf(leads', OidStr(j)) = LeadsOf(leads, OidStr(j))
            /\ Abandoned(j)']_vars

C9_Witness ==
    \E j, k \in DOMAIN jobs :
        /\ Abandoned(j)
        /\ Cardinality(LeadsOf(leads, OidStr(j))) \in 1..9
        /\ k > j
        /\ jobs[k].status = "ready"

\* C10: a job is created processing with result_count 0; its only change
\* is the update to ready by the request_leads call that created it; no
\* job has status failed.
C10_ProcessingThenReady ==
    /\ [](\A j \in DOMAIN jobs : jobs[j].status \in {"processing", "ready"})
    /\ [][\A j \in DOMAIN jobs' :
            IF j \notin DOMAIN jobs
            THEN jobs'[j].status = "processing" /\ jobs'[j].result_count = 0
            ELSE \/ jobs'[j] = jobs[j]
                 \/ /\ jobs[j].status = "processing"
                    /\ jobs'[j].status = "ready"
                    /\ InLoop(OidStr(j))
                    /\ \A f \in Frames : f.job_id = OidStr(j) => f \notin BagToSet(inflight')]_vars
    /\ [][DOMAIN jobs \subseteq DOMAIN jobs']_vars

C10_Witness ==
    /\ \A j \in DOMAIN jobs : jobs[j].status = "ready"
    /\ Cardinality(DOMAIN jobs) = 2

====
